---- MODULE Spec2Model ----
(***************************************************************************)
(* Model of program_codes.py: the line-by-line parse of program_codes.out  *)
(* into the records mapping (Key -> Record) and the final sorted output.   *)
(*                                                                         *)
(* One step of the model reads one input line and runs the whole branch    *)
(* of the main loop that the line selects.  The input is any sequence of   *)
(* at most MaxLines lines drawn from the line sets below; a line is given  *)
(* by the fields the branch slices out of it.  Names are sequences of      *)
(* characters so that the whitespace collapse of the key name is computed. *)
(* A Python name that was never assigned is tracked in "bound"; reading it *)
(* raises NameError, which ends the run (status "raised").                 *)
(***************************************************************************)
EXTENDS Integers, Sequences, FiniteSets, TLC

\* Longest input, in lines.
MaxLines == 6

\* Python's None, as stored in minst_hegis / minst_award / Certs_etc fields.
None == "<None>"

\* Program names after fix_title: one with a single inner space, one with a run.
NameOne == <<"A", " ", "B">>
NameRun == <<"A", " ", " ", "B">>

\* Fields (program_code, program_name, program_hegis, program_award,
\* program_institution) of the program lines of the input.
ProgramLines ==
  { [code |-> "1", name |-> NameOne, hegis |-> "H1", award |-> "BA", institution |-> "Q"],
    [code |-> "1", name |-> NameRun, hegis |-> "H1", award |-> "BA", institution |-> "Q"],
    [code |-> "2", name |-> NameOne, hegis |-> "H1", award |-> "",   institution |-> "Q"] }

\* Fields (name, hegis, award, institution) of the M/A lines of the input.
MawInputs ==
  { [name |-> NameOne, hegis |-> "H1", award |-> "MA", institution |-> "Q"],
    [name |-> NameOne, hegis |-> "H2", award |-> "MA", institution |-> "Q"],
    [name |-> NameOne, hegis |-> "H1", award |-> "BA", institution |-> "C"] }

\* Classification code that occurs only on M/I lines without an award.
NonGrantingHegis == "H3"

\* Fields (hegis, award, institution), stripped, of the M/I lines of the input.
MinstInputs ==
  { [hegis |-> "H2", award |-> "BA", institution |-> "C"],
    [hegis |-> "",   award |-> "BA", institution |-> "C"],
    [hegis |-> NonGrantingHegis, award |-> "NOT-GRANTING", institution |-> "C"],
    [hegis |-> NonGrantingHegis, award |-> "",             institution |-> "C"] }

\* The text after "FOR AWARD --", stripped.
ForInputs == {"BA", "MA", ""}

\* cert_info cut in its three sub-fields; a first sub-field NONE stands for a
\* cert_info that starts with NONE.
CertInputs == { <<"NONE", "", "">>, <<"Teacher", "Initial", "2016">> }

\* The three financial-aid column ranges.
FinAidInputs == { <<"YES", "NO", "NO">>, <<"NO", "NO", "NO">> }

\* The accreditation text.
AccreditationInputs == { "ACS" }

VARIABLES
  records,              \* dict Key -> Record
  program_codes,        \* set of program codes seen
  this_type, prev_type, \* line_type of the last recognized line / the one before
  line_num, num_dupes,
  program_code, program_name, program_hegis, program_award, program_institution,
  maw_lines, maw_awards,
  minst_line, minst_hegis, minst_award, minst_institution,
  for_award, cert, fin_aid, accreditation,
  bound,                \* the names among program/cert/fin_aid/for_award assigned so far
  status,               \* "running", "exited" (exit()), "raised" (uncaught exception), "done"
  output,               \* the rows handed to the spreadsheet, in order
  diag,                 \* the diagnostics printed for the last line read
  derived,              \* the Keys built on the last accreditation line, per branch
  override,             \* the award-carrying M/I line of the active program, if any
  for_fresh,            \* a FOR line was read since the last program line
  fin_fresh,            \* a financial-aid line was read since the last program line
  minst_seen            \* per program code, the M/I lines with an award taken so far

vars == << records, program_codes, this_type, prev_type, line_num, num_dupes,
           program_code, program_name, program_hegis, program_award, program_institution,
           maw_lines, maw_awards, minst_line, minst_hegis, minst_award, minst_institution,
           for_award, cert, fin_aid, accreditation, bound, status, output, diag,
           derived, override, for_fresh, fin_fresh, minst_seen >>

\* Certs_etc() with its defaults.
NoCert == [name |-> None, type |-> None, date |-> None]

NoDerived == [maw |-> {}, minst |-> {}, base |-> {}]

Key(code, name, hegis, award, institution) ==
  [program_code |-> code, program_name |-> name, hegis_code |-> hegis,
   award |-> award, institution |-> institution]

Record(c, f, acc) ==
  [cert_name |-> c.name, cert_type |-> c.type, cert_date |-> c.date,
   tap_eligible |-> f.tap, apts_eligible |-> f.apts, vvta_eligible |-> f.vvta,
   accreditation |-> acc]

\* re.sub('  +', ' ', name): every run of two or more spaces becomes one space.
RECURSIVE Collapse(_)
Collapse(s) ==
  IF Len(s) < 2 THEN s
  ELSE IF s[1] = " " /\ s[2] = " " THEN Collapse(Tail(s))
       ELSE <<s[1]>> \o Collapse(Tail(s))

Init ==
  /\ records = [k \in {} |-> NoCert]
  /\ program_codes = {}
  /\ this_type = "accreditation"
  /\ prev_type = None
  /\ line_num = 0
  /\ num_dupes = 0
  /\ program_code = "" /\ program_name = << >> /\ program_hegis = ""
  /\ program_award = "" /\ program_institution = ""
  /\ maw_lines = {} /\ maw_awards = {}
  /\ minst_line = FALSE /\ minst_hegis = None /\ minst_award = None
  /\ minst_institution = ""
  /\ for_award = "" /\ cert = NoCert
  /\ fin_aid = [tap |-> FALSE, apts |-> FALSE, vvta |-> FALSE]
  /\ accreditation = ""
  /\ bound = {}
  /\ status = "running"
  /\ output = << >>
  /\ diag = {}
  /\ derived = NoDerived
  /\ override = {}
  /\ for_fresh = FALSE
  /\ fin_fresh = FALSE
  /\ minst_seen = [c \in {l.code : l \in ProgramLines} |-> 0]

\* Predecessor tests that also take an M/A line after a financial-aid line.
ExpectedMawAfterFinAid(t) ==
  CASE t = "program"               -> {"accreditation"}
    [] t = "multiple_awards"       -> {"program", "multiple_institutions", "financial_aid"}
    [] t = "multiple_institutions" -> {"program", "multiple_awards"}
    [] t = "for_award"             -> {"program", "multiple_awards", "multiple_institutions",
                                       "accreditation"}
    [] t = "certificate_etc"       -> {"for_award"}
    [] t = "financial_aid"         -> {"certificate_etc", "for_award"}
    [] t = "accreditation"         -> {"financial_aid"}

\* The predecessor tests of the branches (lines 110, 140-141, 165-166, 188-191,
\* 205, 218-219, 231): the types after which a line of type t prints no
\* "unexpected ..." message.
Expected(t) ==
  CASE t = "program"               -> {"accreditation"}
    [] t = "multiple_awards"       -> {"program", "multiple_institutions"}
    [] t = "multiple_institutions" -> {"program", "multiple_awards"}
    [] t = "for_award"             -> {"program", "multiple_awards", "multiple_institutions",
                                       "accreditation"}
    [] t = "certificate_etc"       -> {"for_award"}
    [] t = "financial_aid"         -> {"certificate_etc", "for_award"}
    [] t = "accreditation"         -> {"financial_aid"}

\* The "unexpected ..." message of a line of type t read after type prev.
Unexpected(prev, t) == IF prev \in Expected(t) THEN {} ELSE {"unexpected"}

\* The loop reads another line: the run has not ended and input is left.
CanRead == status = "running" /\ line_num < MaxLines

\* Lines 102-103, common to every line.
ReadLine ==
  /\ CanRead
  /\ line_num' = line_num + 1
  /\ prev_type' = this_type

\* A counter that takes every program line for a duplicate.
CountEveryLine(code) == num_dupes + 1

\* Lines 119-122: num_dupes after a program line with this code.
CountDupes(code) == IF code \in program_codes THEN num_dupes + 1 ELSE num_dupes

\* A program branch that also starts records afresh.
ProgramLineNewRecords ==
  \E l \in ProgramLines :
    /\ ReadLine
    /\ this_type' = "program"
    /\ program_code' = l.code
    /\ program_name' = l.name
    /\ program_hegis' = l.hegis
    /\ program_award' = l.award
    /\ program_institution' = l.institution
    /\ num_dupes' = CountDupes(l.code)
    /\ program_codes' = program_codes \cup {l.code}
    /\ maw_lines' = {}
    /\ maw_awards' = {}
    /\ minst_line' = FALSE
    /\ cert' = NoCert
    /\ bound' = bound \cup {"program", "cert"}
    /\ diag' = Unexpected(this_type, "program")
    /\ override' = {}
    /\ for_fresh' = FALSE
    /\ fin_fresh' = FALSE
    /\ UNCHANGED minst_seen
    /\ records' = [k \in {} |-> NoCert]
    /\ UNCHANGED << minst_hegis, minst_award, minst_institution, for_award,
                    fin_aid, accreditation, status, output, derived >>

\* The program branch, lines 107-133.
ProgramLine ==
  \E l \in ProgramLines :
    /\ ReadLine
    /\ this_type' = "program"
    /\ program_code' = l.code
    /\ program_name' = l.name
    /\ program_hegis' = l.hegis
    /\ program_award' = l.award
    /\ program_institution' = l.institution
    /\ num_dupes' = CountDupes(l.code)
    /\ program_codes' = program_codes \cup {l.code}
    /\ maw_lines' = {}
    /\ maw_awards' = {}
    /\ minst_line' = FALSE
    /\ cert' = NoCert
    /\ bound' = bound \cup {"program", "cert"}
    /\ diag' = Unexpected(this_type, "program")
    /\ override' = {}
    /\ for_fresh' = FALSE
    /\ fin_fresh' = FALSE
    /\ UNCHANGED minst_seen
    /\ UNCHANGED << records, minst_hegis, minst_award, minst_institution, for_award,
                    fin_aid, accreditation, status, output, derived >>

\* What the M/A branch leaves alone.
MawFrame == << records, program_codes, num_dupes, program_code, program_name,
               program_hegis, program_award, program_institution, minst_line,
               minst_hegis, minst_award, minst_institution, for_award, cert, fin_aid,
               accreditation, bound, output, derived, override, for_fresh,
               fin_fresh, minst_seen >>

\* The M/A branch, lines 135-155.  maw_lines is read at line 149: NameError
\* when no program line was read.
MawLine ==
  \E l \in MawInputs :
    /\ ReadLine
    /\ this_type' = "multiple_awards"
    /\ IF "program" \notin bound
       THEN /\ status' = "raised"
            /\ diag' = Unexpected(this_type, "multiple_awards")
            /\ UNCHANGED << maw_lines, maw_awards >>
       ELSE /\ maw_lines' = maw_lines \cup {l}
            /\ maw_awards' = maw_awards \cup {l.award}
            /\ diag' = Unexpected(this_type, "multiple_awards")
                       \cup (IF l \in maw_lines THEN {"duplicate M/A"} ELSE {})
            /\ UNCHANGED status
    /\ UNCHANGED MawFrame

\* Lines 169-174: a blank classification code and the NOT-GRANTING award are None.
MinstHegis(l) == IF l.hegis = "" THEN None ELSE l.hegis
MinstAward(l) == IF l.award = "NOT-GRANTING" THEN None ELSE l.award

\* Line 175, "if minst_award:": neither None nor the empty string.
Truthy(a) == a # None /\ a # ""

\* A test that never finds an earlier M/I line.
NoSecondMinst == FALSE

\* Line 176: an M/I line with an award was already read for this program.
SecondMinst == minst_line

\* What the M/I branch leaves alone.
MinstFrame == << records, program_codes, num_dupes, program_code, program_name,
                 program_hegis, program_award, program_institution, maw_lines,
                 maw_awards, for_award, cert, fin_aid, accreditation, bound, output,
                 derived, for_fresh, fin_fresh >>

\* The M/I branch, lines 157-182.  minst_hegis and minst_award are assigned by
\* every M/I line; minst_line is read at line 176 (NameError when no program
\* line was read); a second line with an award exits.
MinstLine ==
  \E l \in MinstInputs :
    /\ ReadLine
    /\ this_type' = "multiple_institutions"
    /\ minst_hegis' = MinstHegis(l)
    /\ minst_award' = MinstAward(l)
    /\ IF ~Truthy(MinstAward(l))
       THEN /\ diag' = Unexpected(this_type, "multiple_institutions")
            /\ UNCHANGED << minst_line, minst_institution, status, override,
                            minst_seen >>
       ELSE IF "program" \notin bound
       THEN /\ status' = "raised"
            /\ diag' = Unexpected(this_type, "multiple_institutions")
            /\ UNCHANGED << minst_line, minst_institution, override, minst_seen >>
       ELSE IF SecondMinst
       THEN /\ status' = "exited"
            /\ diag' = Unexpected(this_type, "multiple_institutions") \cup {"second M/I"}
            /\ UNCHANGED << minst_line, minst_institution, override, minst_seen >>
       ELSE /\ minst_institution' = l.institution
            /\ minst_line' = TRUE
            /\ override' = { [hegis |-> MinstHegis(l), award |-> MinstAward(l),
                              institution |-> l.institution] }
            /\ minst_seen' = [minst_seen EXCEPT ![program_code] = @ + 1]
            /\ diag' = Unexpected(this_type, "multiple_institutions")
            /\ UNCHANGED status
    /\ UNCHANGED MinstFrame

\* A test that also accepts the award of the M/I line.
ForAwardKnownOrMinst(a) ==
  a = program_award \/ a \in maw_awards \/ (minst_line /\ a = minst_award)

\* Line 195: the award of a FOR line is the program's or one of the M/A lines'.
ForAwardKnown(a) == a = program_award \/ a \in maw_awards

\* What the FOR branch leaves alone.
ForFrame == << records, program_codes, num_dupes, program_code, program_name,
               program_hegis, program_award, program_institution, maw_lines,
               maw_awards, minst_line, minst_hegis, minst_award, minst_institution,
               cert, fin_aid, accreditation, output, derived, override,
               fin_fresh, minst_seen >>

\* The FOR branch, lines 184-199.  program_award is read at line 195 (NameError
\* when no program line was read).  For an unknown award the message of lines
\* 197-198 formats the unassigned name "awards": NameError before exit().
ForLine ==
  \E a \in ForInputs :
    /\ ReadLine
    /\ this_type' = "for_award"
    /\ for_award' = a
    /\ bound' = bound \cup {"for_award"}
    /\ diag' = Unexpected(this_type, "for_award")
    /\ IF "program" \notin bound \/ ~ForAwardKnown(a)
       THEN status' = "raised" /\ UNCHANGED for_fresh
       ELSE for_fresh' = TRUE /\ UNCHANGED status
    /\ UNCHANGED ForFrame

\* A line whose first token is FOR and that does not match 'FOR AWARD --':
\* re.match returns None and .group raises AttributeError (line 194).
ForMalformedLine ==
  /\ ReadLine
  /\ this_type' = "for_award"
  /\ diag' = Unexpected(this_type, "for_award")
  /\ status' = "raised"
  /\ UNCHANGED << for_award, bound, for_fresh >>
  /\ UNCHANGED ForFrame

\* A certificate line cut in its sub-fields without the test for NONE.
CertOfLiteral(c) == [name |-> c[1], type |-> c[2], date |-> c[3]]

\* Lines 209-212.
CertOf(c) ==
  IF c[1] = "NONE" THEN NoCert ELSE [name |-> c[1], type |-> c[2], date |-> c[3]]

\* The CERT branch, lines 201-212.
CertLine ==
  \E c \in CertInputs :
    /\ ReadLine
    /\ this_type' = "certificate_etc"
    /\ diag' = Unexpected(this_type, "certificate_etc")
    /\ cert' = CertOf(c)
    /\ bound' = bound \cup {"cert"}
    /\ UNCHANGED << records, program_codes, num_dupes, program_code, program_name,
                    program_hegis, program_award, program_institution, maw_lines,
                    maw_awards, minst_line, minst_hegis, minst_award, minst_institution,
                    for_award, fin_aid, accreditation, status, output, derived,
                    override, for_fresh, fin_fresh, minst_seen >>

\* Lines 222-225: a column range is true iff it is exactly YES.
FinAidOf(f) == [tap |-> f[1] = "YES", apts |-> f[2] = "YES", vvta |-> f[3] = "YES"]

\* The financial-aid branch, lines 214-225.
FinAidLine ==
  \E f \in FinAidInputs :
    /\ ReadLine
    /\ this_type' = "financial_aid"
    /\ diag' = Unexpected(this_type, "financial_aid")
    /\ fin_aid' = FinAidOf(f)
    /\ fin_fresh' = TRUE
    /\ bound' = bound \cup {"fin_aid"}
    /\ UNCHANGED << records, program_codes, num_dupes, program_code, program_name,
                    program_hegis, program_award, program_institution, maw_lines,
                    maw_awards, minst_line, minst_hegis, minst_award, minst_institution,
                    for_award, cert, accreditation, status, output, derived,
                    override, for_fresh, minst_seen >>

\* An insert that overwrites the Record of a Key that is in records.
InsertLastWins(recs, key, rec) ==
  [k \in DOMAIN recs \cup {key} |-> IF k = key THEN rec ELSE recs[k]]

\* Lines 259-267, 276-284, 293-301: a Key that is in records keeps its Record.
Insert(recs, key, rec) ==
  IF key \in DOMAIN recs THEN recs ELSE recs @@ (key :> rec)

\* The Keys of the three branches (lines 254-258, 271-275, 288-292).
MawKey(m) == Key(program_code, m.name, m.hegis, m.award, m.institution)
MinstKey == Key(program_code, Collapse(program_name), minst_hegis, minst_award,
                minst_institution)
\* The base Key with the institution of the M/I line.
BaseKeyMinstInstitution ==
  Key(program_code, Collapse(program_name), program_hegis, program_award,
      minst_institution)

BaseKey == Key(program_code, Collapse(program_name), program_hegis, program_award,
               program_institution)

\* A loop that builds a Key for every M/A line of the program, whatever its award.
MatchingAnyAward == IF for_award \in maw_awards THEN maw_lines ELSE {}

\* Lines 251-253: the M/A lines the loop builds a Key for.
Matching ==
  IF for_award \in maw_awards THEN {m \in maw_lines : m.award = for_award} ELSE {}

\* Line 270.
MinstApplies == minst_line /\ minst_award = for_award

\* Line 287.
BaseApplies == program_award = for_award

\* The orders in which "for maw_line in maw_lines" can visit the lines of S
\* (the iteration order of a set of tuples of strings is not fixed).
Orders(S) ==
  {o \in [1..Cardinality(S) -> S] : \A i, j \in 1..Cardinality(S) : o[i] = o[j] => i = j}

\* A loop that stops after the first matching line.
InsertMawFirstOnly(recs, order, rec) ==
  IF order = << >> THEN recs ELSE Insert(recs, MawKey(Head(order)), rec)

\* The loop of lines 252-267 over the matching lines in the order given.
RECURSIVE InsertMaw(_, _, _)
InsertMaw(recs, order, rec) ==
  IF order = << >> THEN recs
  ELSE InsertMaw(Insert(recs, MawKey(Head(order)), rec), Tail(order), rec)

\* records after lines 247-301, the M/A lines visited in the order given.
Expand(order, rec) ==
  LET r1 == InsertMaw(records, order, rec)
      r2 == IF MinstApplies THEN Insert(r1, MinstKey, rec) ELSE r1
  IN  IF BaseApplies THEN Insert(r2, BaseKey, rec) ELSE r2

\* The Keys built on an accreditation line, per branch.
DerivedKeys ==
  [maw   |-> {MawKey(m) : m \in Matching},
   minst |-> IF MinstApplies THEN {MinstKey} ELSE {},
   base  |-> IF BaseApplies THEN {BaseKey} ELSE {}]

AllDerived(d) == d.maw \cup d.minst \cup d.base

\* Lines 263-265, 280-282, 297-299: a Key already in records with another Record.
Conflict(rec) ==
  IF \E k \in AllDerived(DerivedKeys) : k \in DOMAIN records /\ records[k] # rec
  THEN {"conflict"} ELSE {}

\* The names lines 243-251 read: cert, fin_aid, for_award, maw_awards.
AccreditationNames == {"cert", "fin_aid", "for_award", "program"}

\* What the accreditation branch leaves alone.
AccreditationFrame ==
  << program_codes, num_dupes, program_code, program_name, program_hegis,
     program_award, program_institution, maw_lines, maw_awards, minst_line,
     minst_hegis, minst_award, minst_institution, for_award, cert, fin_aid, bound,
     output, override, for_fresh, fin_fresh, minst_seen >>

\* The accreditation branch, lines 227-301.
AccreditationLine ==
  \E text \in AccreditationInputs :
    /\ ReadLine
    /\ this_type' = "accreditation"
    /\ accreditation' = text
    /\ IF ~(AccreditationNames \subseteq bound)
       THEN /\ status' = "raised"
            /\ diag' = Unexpected(this_type, "accreditation")
            /\ UNCHANGED << records, derived >>
       ELSE /\ \E order \in Orders(Matching) :
                 records' = Expand(order, Record(cert, fin_aid, text))
            /\ derived' = DerivedKeys
            /\ diag' = Unexpected(this_type, "accreditation")
                       \cup Conflict(Record(cert, fin_aid, text))
            /\ UNCHANGED status
    /\ UNCHANGED AccreditationFrame

\* What a line that reaches no branch body leaves alone.
NoBranchFrame ==
  << records, program_codes, this_type, num_dupes, program_code, program_name,
     program_hegis, program_award, program_institution, maw_lines, maw_awards,
     minst_line, minst_hegis, minst_award, minst_institution, for_award, cert,
     fin_aid, accreditation, bound, output, derived, override, for_fresh,
     fin_fresh, minst_seen >>

\* The else branch, lines 302-304.
UnrecognizedLine ==
  /\ ReadLine
  /\ diag' = {"unrecognized"}
  /\ UNCHANGED status
  /\ UNCHANGED NoBranchFrame

\* A line of whitespace only: tokens is empty and tokens[0] raises IndexError
\* (line 105).
BlankLine ==
  /\ ReadLine
  /\ diag' = {}
  /\ status' = "raised"
  /\ UNCHANGED NoBranchFrame

\* A line whose only token is PROGRAM: tokens[1] raises IndexError (line 214).
ProgramOnlyLine ==
  /\ ReadLine
  /\ diag' = {}
  /\ status' = "raised"
  /\ UNCHANGED NoBranchFrame

\* Python's order of the strings of the input, ascending.
StrOrder == <<"", " ", "1", "2", "A", "B", "BA", "C", "H1", "H2", "H3", "MA", "Q">>

StrLess(a, b) ==
  (CHOOSE i \in 1..Len(StrOrder) : StrOrder[i] = a)
    < (CHOOSE i \in 1..Len(StrOrder) : StrOrder[i] = b)

\* Python's order of two names (character by character, a prefix first).
RECURSIVE NameLess(_, _)
NameLess(a, b) ==
  IF b = << >> THEN FALSE
  ELSE IF a = << >> THEN TRUE
  ELSE IF a[1] # b[1] THEN StrLess(a[1], b[1])
  ELSE NameLess(Tail(a), Tail(b))

\* Tuple comparison of two Keys reaches the classification codes and one of
\* them is None: "<" between None and str raises TypeError.
Incomparable(a, b) ==
  /\ a.program_code = b.program_code
  /\ a.program_name = b.program_name
  /\ a.hegis_code # b.hegis_code
  /\ None \in {a.hegis_code, b.hegis_code}

\* Tuple comparison a < b of two Keys whose fields compare.
KeyLess(a, b) ==
  IF a.program_code # b.program_code THEN StrLess(a.program_code, b.program_code)
  ELSE IF a.program_name # b.program_name THEN NameLess(a.program_name, b.program_name)
  ELSE IF a.hegis_code # b.hegis_code THEN StrLess(a.hegis_code, b.hegis_code)
  ELSE IF a.award # b.award THEN StrLess(a.award, b.award)
  ELSE IF a.institution # b.institution THEN StrLess(a.institution, b.institution)
  ELSE FALSE

\* sorted(records.keys()) raises: any sort compares two Keys that are neighbours
\* in the result, so it compares a Key with None and one with a code under the
\* same program code and name whenever both are present.
SortRaises(keys) == \E a, b \in keys : Incomparable(a, b)

\* sorted(keys), for keys that compare.
RECURSIVE Sorted(_)
Sorted(keys) ==
  IF keys = {} THEN << >>
  ELSE LET least == CHOOSE k \in keys : \A o \in keys \ {k} : KeyLess(k, o)
       IN  <<least>> \o Sorted(keys \ {least})

\* The rows of the spreadsheet, lines 323-330: Key and Record, in sorted order.
Rows(keys) == [i \in 1..Len(keys) |-> <<keys[i], records[keys[i]]>>]

\* End of the input: lines 309-334.
EndOfInput ==
  /\ status = "running"
  /\ IF SortRaises(DOMAIN records)
     THEN status' = "raised" /\ UNCHANGED output
     ELSE status' = "done" /\ output' = Rows(Sorted(DOMAIN records))
  /\ UNCHANGED << records, program_codes, this_type, prev_type, line_num, num_dupes,
                  program_code, program_name, program_hegis, program_award,
                  program_institution, maw_lines, maw_awards, minst_line, minst_hegis,
                  minst_award, minst_institution, for_award, cert, fin_aid,
                  accreditation, bound, diag, derived, override, for_fresh,
                  fin_fresh, minst_seen >>

Next ==
  \/ ProgramLine
  \/ MawLine
  \/ MinstLine
  \/ ForLine
  \/ ForMalformedLine
  \/ CertLine
  \/ FinAidLine
  \/ AccreditationLine
  \/ UnrecognizedLine
  \/ BlankLine
  \/ ProgramOnlyLine
  \/ EndOfInput

Spec == Init /\ [][Next]_vars
----------------------------------------------------------------------------
\* An accreditation line that built its Keys.
AccreditationStep == AccreditationLine /\ status' = "running"

\* The M/A lines of the active program with the award of the active FOR line.
SameAward == {m \in maw_lines : m.award = for_award}

\* C1 as stated: with N >= 1 M/A lines of award A and for_award = A, an
\* accreditation line builds exactly N Keys, one per such M/A line.
C1_ExactlyN ==
  [][AccreditationStep /\ SameAward # {}
       => AllDerived(derived') = {MawKey(m) : m \in SameAward}]_vars

\* C1, amended: with N >= 1 M/A lines of award A and for_award = A, the M/A
\* loop of an accreditation line builds exactly N Keys, one per such M/A line;
\* the line builds at most two more (the M/I Key, the base Key), all the Keys
\* it builds are in records afterwards, and every Key it adds to records gets
\* the Record of that line.
C1_MawKeys ==
  [][AccreditationStep /\ SameAward # {}
       => /\ derived'.maw = {MawKey(m) : m \in SameAward}
          /\ Cardinality(derived'.maw) = Cardinality(SameAward)
          /\ Cardinality(AllDerived(derived')) <= Cardinality(SameAward) + 2
          /\ AllDerived(derived') \subseteq DOMAIN records'
          /\ DOMAIN records' \ DOMAIN records \subseteq AllDerived(derived')
          /\ \A k \in DOMAIN records' \ DOMAIN records :
               records'[k] = Record(cert, fin_aid, accreditation')]_vars

\* Two M/A lines of one award gave two Keys with one Record on the last
\* accreditation line.
C1_Witness ==
  /\ status = "running" /\ this_type = "accreditation"
  /\ Cardinality(derived.maw) = 2
  /\ derived.maw \subseteq DOMAIN records
  /\ \A j, k \in derived.maw : records[j] = records[k]

\* C2: with no M/A line and no M/I override since the program line, an
\* accreditation line that ends a block opened by a FOR line of this program
\* builds exactly one Key: program code, program name (runs of spaces
\* collapsed), and the classification code, award and institution of the
\* program line; that Key is in records afterwards.
C2_BaseKeyOnly ==
  [][AccreditationStep /\ maw_lines = {} /\ ~minst_line /\ for_fresh
       => /\ AllDerived(derived')
               = { Key(program_code, Collapse(program_name), program_hegis,
                       program_award, program_institution) }
          /\ AllDerived(derived') \subseteq DOMAIN records']_vars

\* A block of a program without M/A and M/I lines gave the base Key, its name
\* collapsed.
C2_Witness ==
  /\ status = "running" /\ this_type = "accreditation"
  /\ maw_lines = {} /\ ~minst_line /\ for_fresh
  /\ program_name = NameRun
  /\ derived.base # {} /\ derived.base \subseteq DOMAIN records

\* The Key of the recorded override o for the active program.
OverrideKey(o) ==
  Key(program_code, Collapse(program_name), o.hegis, o.award, o.institution)

\* C3: once an M/I line with award A is the override of the active program,
\* every later accreditation line of that program with for_award = A builds
\* the Key of that override.
C3_OverrideKept ==
  [][AccreditationStep
       => \A o \in override :
            for_award = o.award => OverrideKey(o) \in AllDerived(derived')]_vars

\* C4: no Key in records has the classification code of an M/I line whose
\* award is NOT-GRANTING or blank.
C4_NoKeyFromNonGranting ==
  \A k \in DOMAIN records : k.hegis_code # NonGrantingHegis

\* An M/I line with an award read while the program has an override.
SecondAwardStep == MinstLine /\ minst_line /\ Truthy(minst_award')

\* C5: an M/I line with an award read while the program already has an
\* override ends the run at that line: the status is "exited", no step
\* follows an exit, and no row is handed over.
C5_SecondMinstFatal ==
  [][/\ SecondAwardStep => status' = "exited"
     /\ status # "exited"
     /\ status' = "exited" => output' = << >>]_vars

\* The run exited on a second M/I line with records non-empty.
C5_Witness ==
  /\ status = "exited" /\ "second M/I" \in diag
  /\ DOMAIN records # {} /\ output = << >>

\* A FOR line read while a program is active.
ForStep == ForLine /\ "program" \in bound

\* C6: a FOR line of an active program whose award is neither the program's
\* award nor the award of one of its M/A lines ends the run at that line (no
\* step follows, no row is handed over); with any other award the run goes on.
C6_ForAwardFatal ==
  [][/\ ForStep =>
          (status' = "running"
             <=> (for_award' = program_award
                    \/ \E m \in maw_lines : m.award = for_award'))
     /\ status = "running"
     /\ status' \in {"raised", "exited"} => output' = << >>]_vars

\* A FOR line named the award of the M/I override only, and the run ended.
C6_Witness ==
  /\ status = "raised" /\ this_type = "for_award" /\ "program" \in bound
  /\ minst_line /\ minst_award = for_award
  /\ for_award # program_award /\ for_award \notin maw_awards
  /\ output = << >>

\* C7: the Keys of records only grow, and a Key in records keeps its Record.
C7_FirstWriteWins ==
  [][\A k \in DOMAIN records : k \in DOMAIN records' /\ records'[k] = records[k]]_vars

\* An accreditation line built a Key that was in records with another Record.
C7_Witness ==
  /\ status = "running" /\ this_type = "accreditation" /\ "conflict" \in diag
  /\ \E k \in AllDerived(derived) :
       k \in DOMAIN records /\ records[k] # Record(cert, fin_aid, accreditation)

\* C8: a line ends the run only when it is a second M/I line with an award or
\* a FOR line of an active program with an unknown award; after any other line
\* the run reads on.
C8_OnlyTwoFatal ==
  [][line_num' = line_num + 1 /\ status' # "running"
       => \/ SecondAwardStep
          \/ ForStep /\ for_award' # program_award
                     /\ \A m \in maw_lines : m.award # for_award']_vars

\* The legal pairs (predecessor, current) of the line-type grammar.
LegalPairs ==
  { <<"accreditation", "program">>,
    <<"program", "multiple_awards">>, <<"multiple_institutions", "multiple_awards">>,
    <<"program", "multiple_institutions">>, <<"multiple_awards", "multiple_institutions">>,
    <<"program", "for_award">>, <<"multiple_awards", "for_award">>,
    <<"multiple_institutions", "for_award">>, <<"accreditation", "for_award">>,
    <<"for_award", "certificate_etc">>,
    <<"certificate_etc", "financial_aid">>, <<"for_award", "financial_aid">>,
    <<"financial_aid", "accreditation">> }

\* A line of one of the seven types.
RecognizedLine ==
  \/ ProgramLine \/ MawLine \/ MinstLine \/ ForLine \/ ForMalformedLine
  \/ CertLine \/ FinAidLine \/ AccreditationLine

C10_OrderIndependent ==
  [][/\ AccreditationStep =>
          \A o \in Orders(SameAward) :
            records' = Expand(o, Record(cert, fin_aid, accreditation'))
     /\ status' = "done" =>
          /\ Len(output') = Cardinality(DOMAIN records)
          /\ \A i \in 1..Len(output') :
               /\ output'[i][1] \in DOMAIN records
               /\ output'[i][2] = records[output'[i][1]]
          /\ \A i, j \in 1..Len(output') :
               i < j => KeyLess(output'[i][1], output'[j][1])]_vars

\* An accreditation line visited two M/A lines and both Keys are in records.
C10_Witness ==
  /\ status = "running" /\ this_type = "accreditation"
  /\ Cardinality(derived.maw) >= 2
  /\ derived.maw \subseteq DOMAIN records

\* The certificate fields of a Record are those of the certificate c.
CertIs(rec, c) ==
  rec.cert_name = c.name /\ rec.cert_type = c.type /\ rec.cert_date = c.date

\* C11: a certificate line that starts with NONE leaves the certificate absent
\* and any other certificate line sets its three sub-fields; a program line
\* resets the certificate to absent; no other line changes it; and every
\* Record an accreditation line adds to records carries the certificate as it
\* is then, so after NONE or a program line its three fields are absent.
C11_CertificateReset ==
  [][/\ CertLine =>
          \E c \in CertInputs :
            cert' = IF c[1] = "NONE" THEN NoCert
                    ELSE [name |-> c[1], type |-> c[2], date |-> c[3]]
     /\ ProgramLine => cert' = NoCert
     /\ cert' # cert => CertLine \/ ProgramLine
     /\ AccreditationStep =>
          \A k \in DOMAIN records' \ DOMAIN records : CertIs(records'[k], cert)]_vars

\* An accreditation line right after a certificate line with NONE added a
\* Record without certificate.
C11_Witness ==
  /\ status = "running"
  /\ this_type = "accreditation" /\ prev_type = "certificate_etc"
  /\ cert = NoCert
  /\ derived.base # {} /\ derived.base \subseteq DOMAIN records
  /\ \A k \in derived.base : CertIs(records[k], NoCert)

\* C12: an accreditation line read with no financial-aid line since the last
\* program line (certificate, FOR award and program being set) does not end
\* the run, and every Record it adds to records has tap, apts and vvta false.
C12_FinAidDefault ==
  [][AccreditationLine /\ ~fin_fresh /\ {"program", "cert", "for_award"} \subseteq bound
       => /\ status' = "running"
          /\ \A k \in DOMAIN records' \ DOMAIN records :
               /\ ~records'[k].tap_eligible
               /\ ~records'[k].apts_eligible
               /\ ~records'[k].vvta_eligible]_vars

\* C13: when the rows are handed over, no program code has had more than one
\* M/I line with an award, over all the program lines with that code.
C13_OneAwardMinstPerCode ==
  status = "done" => \A c \in DOMAIN minst_seen : minst_seen[c] <= 1

\* C14: only an accreditation line changes records.
C14_OnlyAccreditationWrites ==
  [][records' # records => AccreditationLine]_vars

\* A line of another type was read with records non-empty.
C14_Witness ==
  /\ status = "running" /\ line_num > 0
  /\ this_type # "accreditation"
  /\ DOMAIN records # {}

\* A line that matches none of the seven patterns: another first token, no
\* token at all, or PROGRAM with no second token.
NoPatternLine == UnrecognizedLine \/ BlankLine \/ ProgramOnlyLine

\* C15: a line that matches none of the seven patterns only advances the line
\* counter: the run goes on, and records, the program codes, the duplicate
\* counter, the program context and the type the next line is validated
\* against are unchanged.
C15_NoPatternNoChange ==
  [][NoPatternLine
       => /\ status' = "running"
          /\ line_num' = line_num + 1
          /\ UNCHANGED << records, program_codes, num_dupes, this_type, program_code,
                          program_name, program_hegis, program_award,
                          program_institution, maw_lines, maw_awards, minst_line,
                          minst_hegis, minst_award, minst_institution, for_award,
                          cert, fin_aid, bound >>]_vars

\* C16: a program line with a code already seen adds one to the duplicate
\* counter and leaves the set of codes alone, a program line with a new code
\* adds the code and leaves the counter alone; either way the line becomes the
\* active context with multi-award set, override and certificate reset.  So
\* each program line adds one to (codes seen + duplicates), and no other step
\* changes either.
C16_DuplicateCount ==
  [][/\ ProgramLine =>
          /\ program_code' \in program_codes =>
               num_dupes' = num_dupes + 1 /\ program_codes' = program_codes
          /\ program_code' \notin program_codes =>
               num_dupes' = num_dupes
                 /\ program_codes' = program_codes \cup {program_code'}
          /\ Cardinality(program_codes') + num_dupes'
               = Cardinality(program_codes) + num_dupes + 1
          /\ maw_lines' = {} /\ maw_awards' = {} /\ ~minst_line' /\ cert' = NoCert
          /\ status' = "running"
     /\ ~ProgramLine => UNCHANGED << program_codes, num_dupes >>]_vars

\* A program line repeated a code: it was counted and is the active context.
C16_Witness ==
  /\ status = "running" /\ this_type = "program"
  /\ num_dupes = 1 /\ Cardinality(program_codes) = 1
  /\ program_code \in program_codes
  /\ maw_lines = {} /\ ~minst_line /\ cert = NoCert
  /\ DOMAIN records # {}

\* C17: at the end of an input read without a fatal condition the rows are
\* handed over: every Key of records once, in ascending order.
C17_SortedHandoff ==
  [][EndOfInput
       => /\ status' = "done"
          /\ Len(output') = Cardinality(DOMAIN records)
          /\ {output'[i][1] : i \in 1..Len(output')} = DOMAIN records
          /\ \A i, j \in 1..Len(output') :
               i < j => KeyLess(output'[i][1], output'[j][1])]_vars

\* C18: at an accreditation line that builds Keys, the FOR award was named by
\* a FOR line read since the last program line, it is the program's award or
\* the award of one of its M/A lines, and at least one Key is built.
C18_ForAwardOfThisProgram ==
  [][AccreditationStep
       => /\ for_fresh
          /\ for_award = program_award \/ \E m \in maw_lines : m.award = for_award
          /\ AllDerived(derived') # {}]_vars

====
